---- MODULE Spec2Model ----
(***************************************************************************)
(* Model of the court-record cross-reference pipeline:                     *)
(*   get_new_verdicts.py  (link discovery, identifier extraction,          *)
(*                         cross-reference resolution, merge/dedupe,       *)
(*                         lookup builder)                                 *)
(*   csv_to_json.py       (stand-alone lookup builder)                     *)
(*                                                                         *)
(* Strings are TLA+ strings; a pandas cell is a string or the missing      *)
(* value NaN.  The remote sites, the CSV store and the JSON lookup are the *)
(* state, together with the locals and the position of a run of main().    *)
(* A run of main() is a sequence of steps: it loads the store, then blocks *)
(* in one request after the other (listing, detail page, appeals page),    *)
(* then writes the store and, after reading it back, the lookup.  The      *)
(* remote sites change and csv_to_json.py runs at any point in between.    *)
(* Runs of main() do not overlap.                                          *)
(***************************************************************************)
EXTENDS Integers, Sequences, FiniteSets, TLC

VARIABLES
    remote,          \* what the remote sites answer: listings, detail pages, appeals pages
    csv_file,        \* data/allir_domar_og_akvardanir.csv : [exists, rows]
    json_file,       \* data/mapping_d_og_a.json           : [exists, mapping]
    df_existing,     \* main(): the prior store as loaded by the run
    all_rows,        \* main(): the rows scraped by the run so far, in scrape order
    verdict_links,   \* main(): result of get_verdict_links() in the run
    decision_links,  \* main(): result of get_decision_links() in the run
    scraping,        \* scrape_supreme(): <<>>, or <<[sup_no, url, app_link]>> of the
                     \* call that is about to fetch its appeals page
    pc,              \* main(): the statement the run is at, or stopped at
    outcome,         \* "running", or how the last run of main() ended
    runs,            \* number of runs of main() started so far
    changes          \* number of changes of the remote sites so far

vars == <<remote, csv_file, json_file, df_existing, all_rows, verdict_links,
          decision_links, scraping, pc, outcome, runs, changes>>

(***************************************************************************)
(* Strings                                                                 *)
(***************************************************************************)

\* The characters that occur in the model's strings, in code point order
\* (Python compares str values code point by code point).
Alphabet == " -./0123456789:_abcdefghijklmnopqrstuvwxyz"

Char(s, i) == SubSeq(s, i, i)

Ord(c) == CHOOSE i \in 1..Len(Alphabet) : Char(Alphabet, i) = c

\* Python's  a < b  on str: lexicographic on code points.
RECURSIVE LessFrom(_, _, _)
LessFrom(a, b, i) ==
    IF i > Len(b) THEN FALSE
    ELSE IF i > Len(a) THEN TRUE
    ELSE IF Char(a, i) = Char(b, i) THEN LessFrom(a, b, i + 1)
    ELSE Ord(Char(a, i)) < Ord(Char(b, i))

StrLess(a, b) == LessFrom(a, b, 1)

\* str.startswith
StartsWith(s, p) == Len(s) >= Len(p) /\ SubSeq(s, 1, Len(p)) = p

RECURSIVE LStrip(_)
LStrip(s) == IF Len(s) > 0 /\ Char(s, 1) = " " THEN LStrip(Tail(s)) ELSE s

RECURSIVE RStrip(_)
RStrip(s) ==
    IF Len(s) > 0 /\ Char(s, Len(s)) = " "
    THEN RStrip(SubSeq(s, 1, Len(s) - 1))
    ELSE s

\* str.strip() (the whitespace of the model's alphabet is the space)
Strip(s) == RStrip(LStrip(s))

\* int(s) for a string of decimal digits
Digits == "0123456789"

DigitVal(c) == (CHOOSE i \in 1..10 : Char(Digits, i) = c) - 1

RECURSIVE ParseInt(_)
ParseInt(s) ==
    IF Len(s) = 0 THEN 0
    ELSE 10 * ParseInt(SubSeq(s, 1, Len(s) - 1)) + DigitVal(Char(s, Len(s)))

\* sorted(S) for a set of strings
RECURSIVE Sorted(_)
Sorted(S) ==
    IF S = {} THEN <<>>
    ELSE LET m == CHOOSE x \in S : \A y \in S \ {x} : StrLess(x, y)
         IN  <<m>> \o Sorted(S \ {m})

Range(s) == {s[i] : i \in 1..Len(s)}

(***************************************************************************)
(* urllib.parse.urljoin for a path-absolute reference without query or     *)
(* fragment against a base without path: the reference's path is split on *)
(* "/", its "." and ".." segments are resolved, and urlunparse appends it  *)
(* to the base's scheme and host.                                          *)
(***************************************************************************)

\* path.split('/'): scan s from position i; the current piece began at start
RECURSIVE SplitFrom(_, _, _)
SplitFrom(s, start, i) ==
    IF i > Len(s) THEN <<SubSeq(s, start, Len(s))>>
    ELSE IF Char(s, i) = "/"
         THEN <<SubSeq(s, start, i - 1)>> \o SplitFrom(s, i + 1, i + 1)
         ELSE SplitFrom(s, start, i + 1)

Split(s) == SplitFrom(s, 1, 1)

\* '/'.join(segs)
RECURSIVE Join(_)
Join(segs) ==
    IF Len(segs) = 0 THEN ""
    ELSE IF Len(segs) = 1 THEN segs[1]
    ELSE segs[1] \o "/" \o Join(Tail(segs))

RECURSIVE Resolve(_, _)
Resolve(segs, acc) ==
    IF Len(segs) = 0 THEN acc
    ELSE LET seg == Head(segs)
         IN  IF seg = ".." THEN
                 Resolve(Tail(segs),
                         IF Len(acc) = 0 THEN acc ELSE SubSeq(acc, 1, Len(acc) - 1))
             ELSE IF seg = "." THEN Resolve(Tail(segs), acc)
             ELSE Resolve(Tail(segs), Append(acc, seg))

urljoin(base, href) ==
    LET segments == Split(href)
        resolved == Resolve(segments, <<>>)
        last     == segments[Len(segments)]
        full     == IF last \in {".", ".."} THEN Append(resolved, "") ELSE resolved
        joined   == Join(full)
        path     == IF joined = "" THEN "/" ELSE joined
    IN  \* urlunparse: with a host, a path that lost its leading "/" (the ".."
        \* segments popped the empty first segment) gets it back
        base \o (IF StartsWith(path, "/") THEN path ELSE "/" \o path)

(***************************************************************************)
(* Remote collaborators.  A listing response is  [error, status, hrefs]:   *)
(* error = the request raised (network error, timeout); hrefs = the href   *)
(* of every <a href=...> of the page, in document order.  A detail         *)
(* response is  [error, status, sup_matches, url_matches]: the matches of  *)
(* SUPREME_RE and of APPEALS_URL_RE in the page text, in document order.   *)
(* An appeals response is  [error, matches]: the (num, year) groups of     *)
(* APPEALS_NO_RE in the page text, in document order.                      *)
(***************************************************************************)

Base == "https://www.haestirettur.is"

VerdictPrefix == "/domar/_domur/"

DecisionPrefix == "/akvardanir/"

AppealsCutoffYear == 2018

\* The missing value of a pandas cell (float nan); no string of the model.
NaN == "<nan>"

cols == {"supreme_case_number", "supreme_case_link", "appeals_case_number",
         "appeals_case_link", "source_type"}

NotFoundPage == [error |-> FALSE, status |-> 404,
                 sup_matches |-> <<>>, url_matches |-> <<>>]

\* requests.get(url).text of a detail page; a URL the site does not know
\* answers with an error page.
DetailOf(rem, url) ==
    IF url \in DOMAIN rem.detail THEN rem.detail[url] ELSE NotFoundPage

AppealsOf(rem, url) ==
    IF url \in DOMAIN rem.appeals THEN rem.appeals[url]
    ELSE [error |-> FALSE, matches |-> <<>>]

\* Mutant of ListingRaises: raise_for_status() left out
ListingRaises_ErrorOnly(resp) == resp.error

\* resp.raise_for_status(), preceded by the exception requests.get may raise
ListingRaises(resp) == resp.error \/ (resp.status >= 400 /\ resp.status < 600)

(***************************************************************************)
(* get_new_verdicts.py                                                     *)
(***************************************************************************)

RECURSIVE FirstQualifying(_)
FirstQualifying(matches) ==
    IF Len(matches) = 0 THEN ""
    ELSE LET num == Head(matches)[1]
             year == Head(matches)[2]
         IN  IF ParseInt(year) >= AppealsCutoffYear
             THEN num \o "/" \o year
             ELSE FirstQualifying(Tail(matches))

appeals_case_number(rem, url) ==
    LET page == AppealsOf(rem, url)
    IN  IF page.error THEN "" ELSE FirstQualifying(page.matches)

first_appeals_link(page) ==
    IF Len(page.url_matches) > 0 THEN page.url_matches[1] ELSE ""

\* urlparse(u).netloc of an absolute https URL: what lies between "https://"
\* and the next "/".  (APPEALS_URL_RE matches lower-case hosts only, so
\* .lower() changes nothing on a match.)
Netloc(u) == Split(SubSeq(u, Len("https://") + 1, Len(u)))[1]

EndsWith(s, p) ==
    Len(s) >= Len(p) /\ SubSeq(s, Len(s) - Len(p) + 1, Len(s)) = p

\* scrape_supreme, lines 45-48: the first match of SUPREME_RE, or ""
SupNo(page) == IF Len(page.sup_matches) > 0 THEN page.sup_matches[1] ELSE ""

\* scrape_supreme, lines 51-60: the first appeals link of the page if its
\* host is landsrettur.is or a subdomain of it, else ""
AppLink(page) ==
    LET found == first_appeals_link(page)
        dom   == IF found = "" THEN "" ELSE Netloc(found)
    IN  IF found # "" /\ (dom = "landsrettur.is" \/ EndsWith(dom, ".landsrettur.is"))
        THEN found ELSE ""

VerdictHrefs(resp) == {h \in Range(resp.hrefs) : StartsWith(h, VerdictPrefix)}

\* [raised, links]
get_verdict_links(rem) ==
    LET resp == rem.verdicts
    IN  IF ListingRaises(resp) THEN [raised |-> TRUE, links |-> <<>>]
        ELSE [raised |-> FALSE,
              links |-> Sorted({urljoin(Base, h) : h \in VerdictHrefs(resp)})]

DecisionHrefs(resp) ==
    {h \in Range(resp.hrefs) : StartsWith(h, DecisionPrefix) /\ h # DecisionPrefix}

get_decision_links(rem) ==
    LET resp == rem.decisions
    IN  IF ListingRaises(resp) THEN [raised |-> TRUE, links |-> <<>>]
        ELSE [raised |-> FALSE,
              links |-> Sorted({urljoin(Base, h) : h \in DecisionHrefs(resp)})]

\* A row of a DataFrame with the columns cols
Row(sup_no, link, app_no, app_link, source) ==
    [supreme_case_number |-> sup_no, supreme_case_link |-> link,
     appeals_case_number |-> app_no, appeals_case_link |-> app_link,
     source_type |-> source]

(***************************************************************************)
(* pandas                                                                  *)
(***************************************************************************)

\* The strings pandas.read_csv reads as missing (its default na_values; the
\* empty field is the one the pipeline produces).
NaStrings == {"", "#N/A", "#N/A N/A", "#NA", "-1.#IND", "-1.#QNAN", "-NaN", "-nan",
              "1.#IND", "1.#QNAN", "<NA>", "N/A", "NA", "NULL", "NaN", "None",
              "n/a", "nan", "null"}

ReadCell(c) == IF c \in NaStrings THEN NaN ELSE c

\* pd.read_csv(csv_file, dtype=str): the rows of the file as DataFrame rows
read_csv(rows) ==
    [i \in 1..Len(rows) |-> [c \in cols |-> ReadCell(rows[i][c])]]

\* DataFrame.to_csv(index=False): a missing value is written as the empty field
WriteCell(v) == IF v = NaN THEN "" ELSE v

to_csv(df) == [i \in 1..Len(df) |-> [c \in cols |-> WriteCell(df[i][c])]]

\* Series.str.strip(): missing stays missing
StrStrip(v) == IF v = NaN THEN NaN ELSE Strip(v)

\* Mutant of Truthy: every cell counts as true
Truthy_Always(v) == TRUE

\* .astype(bool) of an object cell: bool("") is False, bool(nan) is True
Truthy(v) == v # ""

\* Mutant of FilterAppeals: the filter reads the appeals link column.
\* (Defined with its own row selection, which it needs before SelectRows.)
RECURSIVE FilterByLinkFrom(_, _)
FilterByLinkFrom(df, i) ==
    IF i > Len(df) THEN <<>>
    ELSE (IF Strip(df[i].appeals_case_link) # "" THEN <<df[i]>> ELSE <<>>)
         \o FilterByLinkFrom(df, i + 1)

FilterAppeals_ByLink(df) == FilterByLinkFrom(df, 1)

RECURSIVE SelectRows(_, _, _)
SelectRows(df, keep, i) ==
    IF i > Len(df) THEN <<>>
    ELSE (IF i \in keep THEN <<df[i]>> ELSE <<>>) \o SelectRows(df, keep, i + 1)

\* df[df["appeals_case_number"].str.strip().astype(bool)]
FilterAppeals(df) ==
    SelectRows(df,
               {i \in 1..Len(df) : Truthy(StrStrip(df[i].appeals_case_number))}, 1)

\* df.drop_duplicates(subset="supreme_case_number", keep="first");
\* pandas takes two missing values for duplicates of each other.
drop_duplicates(df) ==
    SelectRows(df,
               {i \in 1..Len(df) :
                   \A j \in 1..(i - 1) :
                       df[j].supreme_case_number # df[i].supreme_case_number}, 1)

(***************************************************************************)
(* The lookup builders.  A JSON value of the lookup is modelled as         *)
(* [is_list, items]: a bare object is is_list = FALSE with its one object  *)
(* in items; an array is is_list = TRUE.  An object is a function from     *)
(* field names to cells.                                                   *)
(***************************************************************************)

DropColumn(row, col) == [c \in (DOMAIN row) \ {col} |-> row[c]]

\* main(), step 1: read the store back, blank the missing appeals links,
\* strip every column
ReadBackAndStrip(rows) ==
    LET df == read_csv(rows)
    IN  [i \in 1..Len(df) |->
            [c \in cols |->
                IF c = "appeals_case_link" /\ df[i][c] = NaN THEN ""
                ELSE StrStrip(df[i][c])]]

\* main(), step 2: df.groupby("appeals_case_number") leaves out the rows whose
\* key is missing; a group keeps the rows' order
BuildMapping(df) ==
    LET keys == {df[i].appeals_case_number : i \in 1..Len(df)} \ {NaN}
        group(k) ==
            LET g == SelectRows(df, {i \in 1..Len(df) : df[i].appeals_case_number = k}, 1)
            IN  [i \in 1..Len(g) |-> DropColumn(g[i], "appeals_case_number")]
    IN  [k \in keys |->
            IF Len(group(k)) = 1
            THEN [is_list |-> FALSE, items |-> <<group(k)[1]>>]
            ELSE [is_list |-> TRUE, items |-> group(k)]]

\* csv_to_json.py: csv.DictReader yields every field as a string
grouped(rows) ==
    LET keys == {Strip(rows[i].appeals_case_number) : i \in 1..Len(rows)}
    IN  [k \in keys |->
            LET g == SelectRows(rows,
                        {i \in 1..Len(rows) : Strip(rows[i].appeals_case_number) = k}, 1)
            IN  [i \in 1..Len(g) |-> [c \in cols |-> Strip(g[i][c])]]]

mapping(rows) ==
    LET gr == grouped(rows)
    IN  [k \in DOMAIN gr |->
            IF Len(gr[k]) = 1
            THEN [is_list |-> FALSE, items |-> <<gr[k][1]>>]
            ELSE [is_list |-> TRUE, items |-> gr[k]]]

(***************************************************************************)
(* main(), lines 127-135                                                   *)
(***************************************************************************)

\* filter the scraped rows, concatenate after the prior store, dedupe
Merge(existing, rows) == drop_duplicates(existing \o FilterAppeals(rows))

(***************************************************************************)
(* The remote contents the model runs against.                             *)
(***************************************************************************)

MaxRuns == 2

MaxChanges == 2

HrefV1 == "/domar/_domur/v1"
HrefV2 == "/domar/_domur/v2"
HrefD1 == "/akvardanir/a1"

UrlV1 == Base \o HrefV1
UrlV2 == Base \o HrefV2
UrlD1 == Base \o HrefD1

LinkL1 == "https://landsrettur.is/domar-og-urskurdir/domur-urskurdur/x1"
LinkL2 == "https://landsrettur.is/domar-og-urskurdir/domur-urskurdur/x2"

Listing(status, hrefs) == [error |-> FALSE, status |-> status, hrefs |-> hrefs]

ListingError == [error |-> TRUE, status |-> 0, hrefs |-> <<>>]

Page(sup_matches, url_matches) ==
    [error |-> FALSE, status |-> 200,
     sup_matches |-> sup_matches, url_matches |-> url_matches]

PageError == [error |-> TRUE, status |-> 0, sup_matches |-> <<>>, url_matches |-> <<>>]

AppealsPage(matches) == [error |-> FALSE, matches |-> matches]

AppealsError == [error |-> TRUE, matches |-> <<>>]

\* Both listings answer 200; the detail and appeals pages vary.
DetailMaps ==
    {f \in [{UrlV1, UrlV2, UrlD1} ->
               {PageError, NotFoundPage,
                Page(<<>>, <<LinkL1>>),
                Page(<<"2024-10">>, <<LinkL1>>),
                Page(<<"2024-10", "2024-11">>, <<LinkL2, LinkL1>>),
                Page(<<"2024-11">>, <<>>),
                Page(<<>>, <<LinkL2>>)}] :
        /\ f[UrlV1] \in {PageError, Page(<<>>, <<LinkL1>>), Page(<<"2024-10">>, <<LinkL1>>)}
        /\ f[UrlV2] \in {Page(<<"2024-10", "2024-11">>, <<LinkL2, LinkL1>>),
                         Page(<<"2024-11">>, <<>>)}
        /\ f[UrlD1] \in {Page(<<>>, <<LinkL2>>), Page(<<"2024-10">>, <<LinkL1>>),
                         NotFoundPage, PageError}}

AppealsMaps ==
    {f \in [{LinkL1, LinkL2} ->
               {AppealsError,
                AppealsPage(<<<<"3", "2017">>, <<"12", "2020">>>>),
                AppealsPage(<<<<"3", "2017">>>>),
                AppealsPage(<<<<"5", "2019">>, <<"12", "2020">>>>)}] :
        /\ f[LinkL1] \in {AppealsError, AppealsPage(<<<<"3", "2017">>, <<"12", "2020">>>>)}
        /\ f[LinkL2] \in {AppealsPage(<<<<"3", "2017">>>>),
                          AppealsPage(<<<<"5", "2019">>, <<"12", "2020">>>>)}}

HealthyRemotes ==
    {[verdicts |-> Listing(200, <<HrefV2, HrefV1, HrefV2>>),
      decisions |-> Listing(200, <<HrefD1>>),
      detail |-> d, appeals |-> a] : d \in DetailMaps, a \in AppealsMaps}

\* One listing of a healthy remote fails, or answers with a status outside 2xx.
FaultyBase ==
    [verdicts |-> Listing(200, <<HrefV2, HrefV1, HrefV2>>),
     decisions |-> Listing(200, <<HrefD1>>),
     detail |-> (UrlV1 :> Page(<<"2024-10">>, <<LinkL1>>))
                @@ (UrlV2 :> Page(<<"2024-11">>, <<>>))
                @@ (UrlD1 :> Page(<<>>, <<LinkL2>>)),
     appeals |-> (LinkL1 :> AppealsPage(<<<<"3", "2017">>, <<"12", "2020">>>>))
                 @@ (LinkL2 :> AppealsPage(<<<<"5", "2019">>, <<"12", "2020">>>>))]

FaultyRemotes ==
    {[FaultyBase EXCEPT !.verdicts = v] :
        v \in {ListingError, Listing(503, <<HrefV1>>), Listing(304, <<HrefV1>>)}}
    \cup
    {[FaultyBase EXCEPT !.decisions = d] :
        d \in {ListingError, Listing(404, <<HrefD1>>), Listing(304, <<HrefD1>>)}}

Remotes == HealthyRemotes \cup FaultyRemotes

(***************************************************************************)
(* State machine                                                           *)
(***************************************************************************)

Absent == [exists |-> FALSE]

Init ==
    /\ remote \in Remotes
    /\ csv_file = Absent
    /\ json_file = Absent
    /\ df_existing = <<>>
    /\ all_rows = <<>>
    /\ verdict_links = <<>>
    /\ decision_links = <<>>
    /\ scraping = <<>>
    /\ pc = "none"
    /\ outcome = "none"
    /\ runs = 0
    /\ changes = 0

\* The position after a row was appended to rows: the loop goes on, or main()
\* moves to the statement after the loop
AfterAppend(rows, vlinks, dlinks, at) ==
    IF at = "scrape_verdicts"
    THEN (IF Len(rows) < Len(vlinks) THEN at ELSE "get_decision_links")
    ELSE (IF Len(rows) < Len(vlinks) + Len(dlinks) THEN at ELSE "save")

\* The url the loop the run is in hands to scrape_supreme next
CurrentUrl ==
    IF pc = "scrape_verdicts"
    THEN verdict_links[Len(all_rows) + 1]
    ELSE decision_links[Len(all_rows) - Len(verdict_links) + 1]

SourceType == IF pc = "scrape_verdicts" THEN "dóm" ELSE "ákvörðun"

\* python get_new_verdicts.py, lines 95-111: a run starts and loads the store
LoadExisting ==
    /\ outcome # "running"
    /\ runs < MaxRuns
    /\ runs' = runs + 1
    /\ df_existing' = IF csv_file.exists THEN read_csv(csv_file.rows) ELSE <<>>
    /\ all_rows' = <<>>
    /\ verdict_links' = <<>>
    /\ decision_links' = <<>>
    /\ scraping' = <<>>
    /\ pc' = "get_verdict_links"
    /\ outcome' = "running"
    /\ UNCHANGED <<remote, csv_file, json_file, changes>>

\* line 114: verdict_links = get_verdict_links(); an exception ends the run
GetVerdictLinks ==
    /\ outcome = "running"
    /\ pc = "get_verdict_links"
    /\ \E r \in {get_verdict_links(remote)} :
           IF r.raised
           THEN /\ outcome' = "verdict_listing_failed"
                /\ UNCHANGED <<verdict_links, pc>>
           ELSE /\ verdict_links' = r.links
                /\ pc' = AfterAppend(<<>>, r.links, <<>>, "scrape_verdicts")
                /\ UNCHANGED outcome
    /\ UNCHANGED <<remote, csv_file, json_file, df_existing, all_rows,
                   decision_links, scraping, runs, changes>>

\* line 121: decision_links = get_decision_links(); an exception ends the run
GetDecisionLinks ==
    /\ outcome = "running"
    /\ pc = "get_decision_links"
    /\ \E r \in {get_decision_links(remote)} :
           IF r.raised
           THEN /\ outcome' = "decision_listing_failed"
                /\ UNCHANGED <<decision_links, pc>>
           ELSE /\ decision_links' = r.links
                /\ pc' = AfterAppend(all_rows, verdict_links, r.links, "scrape_decisions")
                /\ UNCHANGED outcome
    /\ UNCHANGED <<remote, csv_file, json_file, df_existing, all_rows,
                   verdict_links, scraping, runs, changes>>

\* lines 117 and 124, scrape_supreme up to its call of appeals_case_number:
\* the detail page is fetched (an exception ends the run) and parsed; without
\* an appeals link the call returns and the row is appended
ScrapeSupreme ==
    /\ outcome = "running"
    /\ pc \in {"scrape_verdicts", "scrape_decisions"}
    /\ scraping = <<>>
    /\ LET url  == CurrentUrl
           page == DetailOf(remote, url)
       IN  IF page.error
           THEN /\ outcome' = "detail_failed"
                /\ UNCHANGED <<all_rows, scraping, pc>>
           ELSE IF AppLink(page) # ""
           THEN /\ scraping' = <<[sup_no |-> SupNo(page), url |-> url,
                                  app_link |-> AppLink(page)]>>
                /\ UNCHANGED <<all_rows, pc, outcome>>
           ELSE /\ all_rows' = Append(all_rows, Row(SupNo(page), url, "", "", SourceType))
                /\ pc' = AfterAppend(all_rows', verdict_links, decision_links, pc)
                /\ UNCHANGED <<scraping, outcome>>
    /\ UNCHANGED <<remote, csv_file, json_file, df_existing, verdict_links,
                   decision_links, runs, changes>>

\* line 57, appeals_case_number: the appeals page is fetched (an exception
\* gives ""), scrape_supreme returns and the row is appended
AppealsCaseNumber ==
    /\ outcome = "running"
    /\ pc \in {"scrape_verdicts", "scrape_decisions"}
    /\ scraping # <<>>
    /\ LET call   == scraping[1]
           app_no == appeals_case_number(remote, call.app_link)
       IN  all_rows' = Append(all_rows, Row(call.sup_no, call.url, app_no,
                                             call.app_link, SourceType))
    /\ pc' = AfterAppend(all_rows', verdict_links, decision_links, pc)
    /\ scraping' = <<>>
    /\ UNCHANGED <<remote, csv_file, json_file, df_existing, verdict_links,
                   decision_links, outcome, runs, changes>>

\* lines 127-141: filter, merge and write the store
Save ==
    /\ outcome = "running"
    /\ pc = "save"
    /\ csv_file' = [exists |-> TRUE, rows |-> to_csv(Merge(df_existing, all_rows))]
    /\ pc' = "build_mapping"
    /\ UNCHANGED <<remote, json_file, df_existing, all_rows, verdict_links,
                   decision_links, scraping, outcome, runs, changes>>

\* lines 143-174: read the store back, build the lookup and write it
WriteJson ==
    /\ outcome = "running"
    /\ pc = "build_mapping"
    /\ json_file' = [exists |-> TRUE,
                     mapping |-> BuildMapping(ReadBackAndStrip(csv_file.rows))]
    /\ pc' = "end"
    /\ outcome' = "done"
    /\ UNCHANGED <<remote, csv_file, df_existing, all_rows, verdict_links,
                   decision_links, scraping, runs, changes>>

\* The steps of main()
Main ==
    \/ LoadExisting
    \/ GetVerdictLinks
    \/ ScrapeSupreme
    \/ AppealsCaseNumber
    \/ GetDecisionLinks
    \/ Save
    \/ WriteJson

\* python csv_to_json.py, with a store on disk (without one, open() raises
\* and nothing is written)
CsvToJson ==
    /\ csv_file.exists
    /\ json_file' = [exists |-> TRUE, mapping |-> mapping(csv_file.rows)]
    /\ UNCHANGED <<remote, csv_file, df_existing, all_rows, verdict_links,
                   decision_links, scraping, pc, outcome, runs, changes>>

\* The pages on which two remote contents differ
Differing(r1, r2) ==
    {k \in {"verdicts", "decisions"} : r1[k] # r2[k]}
    \cup {u \in DOMAIN r1.detail : r1.detail[u] # r2.detail[u]}
    \cup {u \in DOMAIN r1.appeals : r1.appeals[u] # r2.appeals[u]}

\* One page of the remote sites changes, between two runs or between two
\* requests of a run
RemoteChange ==
    /\ changes < MaxChanges
    /\ changes' = changes + 1
    /\ remote' \in {r \in Remotes : Cardinality(Differing(remote, r)) = 1}
    /\ UNCHANGED <<csv_file, json_file, df_existing, all_rows, verdict_links,
                   decision_links, scraping, pc, outcome, runs>>

Next == Main \/ CsvToJson \/ RemoteChange

Spec == Init /\ [][Next]_vars

\* The runs of main() against remote sites that do not change, and without
\* csv_to_json.py
SpecFrozen == Init /\ [][Main]_vars

(***************************************************************************)
(* Link discovery on its own: both listing pages carry the same anchors,   *)
(* drawn from hrefs inside and outside the two prefixes, the prefix roots  *)
(* and hrefs with dot segments.                                            *)
(***************************************************************************)

MaxAnchors == 3

LinkHrefs ==
    {"/domar/_domur/", "/domar/_domur/v1", "/domar/_domur/v2/../v1",
     "/akvardanir/", "/akvardanir/a1", "/akvardanir/a2/./", "/domar/",
     "/akvardanir/../../a1"}

HrefSeqs == UNION {[1..n -> LinkHrefs] : n \in 0..MaxAnchors}

LinkRemotes ==
    {[FaultyBase EXCEPT !.verdicts = Listing(200, h), !.decisions = Listing(200, h)] :
        h \in HrefSeqs}

InitLinks ==
    /\ remote \in LinkRemotes
    /\ csv_file = Absent
    /\ json_file = Absent
    /\ df_existing = <<>>
    /\ all_rows = <<>>
    /\ verdict_links = <<>>
    /\ decision_links = <<>>
    /\ scraping = <<>>
    /\ pc = "none"
    /\ outcome = "none"
    /\ runs = 0
    /\ changes = 0

SpecLinks == InitLinks /\ [][Main]_vars

(***************************************************************************)
(* Properties                                                              *)
(***************************************************************************)

MainOutcomes == {"done", "verdict_listing_failed", "decision_listing_failed",
                 "detail_failed"}

\* A step taken by the run of main() from a statement that fetches a listing
ListingStep(at) ==
    outcome = "running" /\ pc = at /\ (pc' # pc \/ outcome' # outcome)

RowsOf(file) == IF file.exists THEN file.rows ELSE <<>>

Count(seq, x) == Cardinality({i \in 1..Len(seq) : seq[i] = x})

\* C1: against remote content that does not change, no step of a second or
\* later run of main() changes the store or the lookup.
Idempotence ==
    [][runs >= 2 => (csv_file' = csv_file /\ json_file' = json_file)]_vars

\* C2: after a run, every record of the prior store is in the merged store
\* unchanged, and the merged records under a key the prior store held are
\* the prior record alone (a scraped record of the same key is discarded).
MergeKeepsPrior ==
    outcome = "done" =>
        LET prior == to_csv(df_existing)
            merged == csv_file.rows
        IN  /\ \A i \in 1..Len(prior) : prior[i] \in Range(merged)
            /\ \A i \in 1..Len(prior) : \A j \in 1..Len(merged) :
                   merged[j].supreme_case_number = prior[i].supreme_case_number
                       => merged[j] = prior[i]

\* C3: a scraped record whose appeals_case_number is empty is not in the
\* merged store the run writes.
DropPolicy ==
    outcome = "done" =>
        \A i \in 1..Len(all_rows) :
            Strip(all_rows[i].appeals_case_number) = ""
                => to_csv(<<all_rows[i]>>)[1] \notin Range(csv_file.rows)

\* C3 witness: a run with a prior store added a record and dropped a scraped
\* record that had a supreme number and an appeals link but no appeals number.
DropPolicyWitness ==
    /\ outcome = "done"
    /\ Len(df_existing) > 0
    /\ Len(csv_file.rows) > Len(df_existing)
    /\ \E i \in 1..Len(all_rows) :
           /\ all_rows[i].appeals_case_number = ""
           /\ all_rows[i].supreme_case_number # ""
           /\ all_rows[i].appeals_case_link # ""

\* C4: no two records of the persisted store have the same
\* supreme_case_number.
KeyUniqueness ==
    \A i, j \in 1..Len(RowsOf(csv_file)) :
        i # j => csv_file.rows[i].supreme_case_number
                    # csv_file.rows[j].supreme_case_number

\* C5: every record of the persisted store has a non-empty
\* appeals_case_number.
NonEmptyAppeals ==
    \A i \in 1..Len(RowsOf(csv_file)) :
        Strip(csv_file.rows[i].appeals_case_number) # ""

\* C5 witness: a run carried prior records over, added scraped ones and had
\* scraped a record without appeals number.
NonEmptyAppealsWitness ==
    /\ outcome = "done"
    /\ Len(df_existing) > 1
    /\ Len(csv_file.rows) > Len(df_existing)
    /\ \E i \in 1..Len(all_rows) : all_rows[i].appeals_case_number = ""

\* The record a lookup object stands for: the key re-attached as
\* appeals_case_number, every other cell as the lookup holds it
Reattach(k, obj) ==
    [c \in cols |-> IF c = "appeals_case_number" THEN k ELSE obj[c]]

\* The places <<key, index>> of the objects of a lookup
Flattened(m) ==
    UNION {{<<k, i>> : i \in 1..Len(m[k].items)} : k \in DOMAIN m}

\* C6: the lookup maps a key of one record to a bare object and a key of
\* N > 1 records to a list of N objects, and flattening it gives back the
\* records of the store, each as often as the store holds it (but for the
\* moment in which main() has written the store and not yet the lookup).
GroupingCollapseLaw ==
    (json_file.exists /\ ~(outcome = "running" /\ pc = "build_mapping")) =>
        LET rows == csv_file.rows
            m == json_file.mapping
            held(k) == Cardinality({i \in 1..Len(rows) : rows[i].appeals_case_number = k})
        IN  /\ DOMAIN m = {rows[i].appeals_case_number : i \in 1..Len(rows)}
            /\ \A k \in DOMAIN m :
                   /\ held(k) = 1 => (~m[k].is_list /\ Len(m[k].items) = 1)
                   /\ held(k) > 1 => (m[k].is_list /\ Len(m[k].items) = held(k))
            /\ \A p \in Flattened(m) :
                   Reattach(p[1], m[p[1]].items[p[2]]) \in Range(rows)
            /\ \A j \in 1..Len(rows) :
                   Cardinality({p \in Flattened(m) :
                                   Reattach(p[1], m[p[1]].items[p[2]]) = rows[j]})
                       = Count(rows, rows[j])

NonSuccess(resp) == resp.error \/ resp.status < 200 \/ resp.status > 299

HttpError(resp) == resp.error \/ (resp.status >= 400 /\ resp.status <= 599)

PerRecordFailuresAbsorbed ==
    (outcome \in MainOutcomes
        /\ outcome \notin {"verdict_listing_failed", "decision_listing_failed"})
    => (outcome = "done" /\ csv_file.exists)

\* C9: every object of the lookup has the four fields other than
\* appeals_case_number, and only those.
LookupOmitsGroupingField ==
    json_file.exists =>
        \A p \in Flattened(json_file.mapping) :
            DOMAIN json_file.mapping[p[1]].items[p[2]]
                = cols \ {"appeals_case_number"}

IsSortedNoDup(links) ==
    \A i, j \in 1..Len(links) : i < j => StrLess(links[i], links[j])

\* C10: each discovered list is sorted, free of duplicates, and holds the
\* absolute URLs of exactly the hrefs under the source's prefix other than
\* the prefix root.
LinkDiscoveryResult ==
    outcome = "done" =>
        /\ IsSortedNoDup(verdict_links)
        /\ Range(verdict_links)
             = {urljoin(Base, h) :
                   h \in {x \in Range(remote.verdicts.hrefs) :
                             StartsWith(x, VerdictPrefix) /\ x # VerdictPrefix}}
        /\ IsSortedNoDup(decision_links)
        /\ Range(decision_links)
             = {urljoin(Base, h) :
                   h \in {x \in Range(remote.decisions.hrefs) :
                             StartsWith(x, DecisionPrefix) /\ x # DecisionPrefix}}

====
